---------------------------- MODULE Spec2Model ----------------------------
(***************************************************************************)
(* A model of the cost-function framework of ott (src/ott/geometry/costs.py *)
(* in the source tree): the Bures barycenter with its covariance            *)
(* fixed-point loop, the Soft-DTW antidiagonal recurrence, the simple       *)
(* costs with their twist operators and Legendre transforms, and the        *)
(* validity guard of the unbalanced Bures cost.                             *)
(*                                                                          *)
(* Arithmetic is exact: a real number is a normalised rational <<n, d>>     *)
(* with d > 0.  Covariance matrices are diagonal with perfect-square        *)
(* entries and are stored as their diagonal, so that the matrix square      *)
(* root, the inverse and the matrix product act entry by entry and stay     *)
(* rational.                                                                *)
(***************************************************************************)
EXTENDS Integers, Sequences, FiniteSets, TLC

VARIABLES
    \* ---- Bures.barycenter / Bures.covariance_fixpoint_iter ----
    pc,               \* position of the call
    weights,          \* argument: the barycentric weights, as passed
    xs,               \* argument: the packed Gaussians [mean(d), cov(d*d)]
    tolerance,        \* argument
    min_iterations,   \* kwargs of the fixed-point loop
    max_iterations,
    inner_iterations,
    w,                \* the weights after normalisation
    covs,             \* the covariances extracted from xs
    mu_bary,          \* barycenter of the means
    iteration,        \* the loop's iteration counter
    cov,              \* state[0]: current covariance estimate
    diffs,            \* state[1]: the diagnostics array
    inner_left,       \* steps left in the running block
    scan_left,        \* blocks left when the loop is forced to a scan
    steps,            \* history: number of body_fn executions
    result,           \* the returned packed Gaussian
    \* ---- SoftDTW._soft_dtw ----
    dtw_pc, t1, t2, ground_cost, dist, model_matrix, carry, scan_row, dtw_out,
    \* ---- CostFn operations on the simple costs ----
    cost, op, args, out,
    \* ---- UnbalancedBures.__call__ ----
    ub_pc, ub_signs, ub_value, ub_out,
    \* ---- two Bures.barycenter calls on one cost object ----
    self_obj,         \* the cost object the calls share
    active,           \* the call that is running (1 or 2)
    suspended         \* the frame of the call that is not running

buresVars == <<pc, weights, xs, tolerance, min_iterations, max_iterations,
               inner_iterations, w, covs, mu_bary, iteration, cov, diffs,
               inner_left, scan_left, steps, result>>
dtwVars == <<dtw_pc, t1, t2, ground_cost, dist, model_matrix, carry, scan_row,
             dtw_out>>
costVars == <<cost, op, args, out>>
ubVars == <<ub_pc, ub_signs, ub_value, ub_out>>
concVars == <<self_obj, active, suspended>>
vars == <<buresVars, dtwVars, costVars, ubVars, concVars>>

None == "none"

---------------------------------------------------------------------------
(* Exact rational arithmetic.                                              *)

Abs(n) == IF n < 0 THEN -n ELSE n

RECURSIVE GCD(_, _)
GCD(a, b) == IF b = 0 THEN a ELSE GCD(b, a % b)

RNorm(n, d) ==
    LET g == GCD(Abs(n), Abs(d))
        s == IF d < 0 THEN -1 ELSE 1
    IN  <<(s * n) \div g, (s * d) \div g>>

R(n) == <<n, 1>>
RAdd(a, b) == RNorm(a[1] * b[2] + b[1] * a[2], a[2] * b[2])
RNeg(a) == <<-a[1], a[2]>>
RSub(a, b) == RAdd(a, RNeg(b))
RMul(a, b) == RNorm(a[1] * b[1], a[2] * b[2])
RInv(a) == RNorm(a[2], a[1])
RDiv(a, b) == RMul(a, RInv(b))
RLt(a, b) == a[1] * b[2] < b[1] * a[2]
RGt(a, b) == RLt(b, a)

RECURSIVE RSum(_)
RSum(s) == IF s = <<>> THEN R(0) ELSE RAdd(Head(s), RSum(Tail(s)))

RECURSIVE ISum(_)
ISum(s) == IF s = <<>> THEN 0 ELSE Head(s) + ISum(Tail(s))

\* The square root of a perfect square.
ISqrt(n) == CHOOSE k \in 0..n : k * k = n

\* The array <<f(1), ..., f(n)>>, as a sequence.
Tabulate(n, f(_)) == [i \in 1..n |-> f(i)] \o <<>>

---------------------------------------------------------------------------
(* Bures: the dimension of the Gaussians and the defaults of the loop.     *)

dimension == 2

\* jnp.squeeze drops every axis of length 1: a batch of a single Gaussian
\* loses its batch axis.  The result keeps the length of the leading axis
\* that is left ("lead") beside the data.
x_to_means_and_covs(x) ==
    LET k == Len(x)
    IN  [means |-> Tabulate(k, LAMBDA i : Tabulate(dimension, LAMBDA j : R(x[i].mean[j]))),
         covs  |-> Tabulate(k, LAMBDA i : Tabulate(dimension, LAMBDA j : R(x[i].cov[j]))),
         lead  |-> IF k = 1 THEN dimension ELSE k]

mean_and_cov_to_x(mean, covariance) == [mean |-> mean, cov |-> covariance]

\* matrix_square_root.sqrtm on a diagonal matrix with perfect-square entries:
\* (sqrt, inverse sqrt).
sqrtm(m) ==
    LET rt == Tabulate(dimension, LAMBDA j : <<ISqrt(m[j][1]), ISqrt(m[j][2])>>)
    IN  <<rt, Tabulate(dimension, LAMBDA j : RInv(rt[j]))>>

sqrtm_only(m) == sqrtm(m)[1]

MatMul(a, b) == Tabulate(dimension, LAMBDA j : RMul(a[j], b[j]))

\* vmap over (covs, weights): weight * sqrtm_only((cov_sqrt @ cov) @ cov_sqrt)
scale_covariances(cov_sqrt, cs, ws) ==
    Tabulate(Len(cs), LAMBDA i :
        LET rt == sqrtm_only(MatMul(MatMul(cov_sqrt, cs[i]), cov_sqrt))
        IN  Tabulate(dimension, LAMBDA j : RMul(ws[i], rt[j])))

\* jnp.sum(..., axis=0) of a batch of diagonals
SumAxis0(batch) ==
    Tabulate(dimension, LAMBDA j : RSum(Tabulate(Len(batch), LAMBDA i : batch[i][j])))

\* math.ceil(max_iterations / inner_iterations)
NumBlocks(maxit, inner) == (maxit + inner - 1) \div inner

\* Variant of init_state's diffs that starts from zeros.
init_state_diffs_zeros(maxit, inner) == Tabulate(NumBlocks(maxit, inner), LAMBDA b : R(0))

\* init_state: the identity and an array of -1
init_state_cov == Tabulate(dimension, LAMBDA j : R(1))
init_state_diffs(maxit, inner) == Tabulate(NumBlocks(maxit, inner), LAMBDA b : R(-1))

\* Reading diffs[i] (0-based i): an index past the end is clamped to the
\* last element, as jax does for an out-of-bounds gather.
DiffsAt(d, i) == d[(IF i >= Len(d) THEN Len(d) - 1 ELSE i) + 1]

\* cond_fn: diffs[iteration // inner_iterations] > tolerance
cond_fn(it, d) == RGt(DiffsAt(d, it \div inner_iterations), tolerance)

\* body_fn: one fixed-point update, and the diagnostic written to the slot
\* of the running block (a write past the end would be dropped).
next_cov_from(c, cs, ws) ==
    LET rt == sqrtm(c)
        cov_sqrt == rt[1]
        cov_inv_sqrt == rt[2]
        summed == SumAxis0(scale_covariances(cov_sqrt, cs, ws))
        scaled_cov == MatMul(summed, summed)
    IN  MatMul(MatMul(cov_inv_sqrt, scaled_cov), cov_inv_sqrt)

next_cov_of(c) == next_cov_from(c, covs, w)

diff_of(next_cov, c) ==
    RDiv(RSum(Tabulate(dimension, LAMBDA j :
                 RMul(RSub(next_cov[j], c[j]), RSub(next_cov[j], c[j])))),
         R(dimension * dimension))

DiffsSet(d, i, v) == IF i + 1 \in DOMAIN d THEN [d EXCEPT ![i + 1] = v] ELSE d

\* The slot body_fn writes: iteration // inner_iterations
body_fn_index(it) == it \div inner_iterations

---------------------------------------------------------------------------
(* Bounds of the Bures model.                                              *)

MaxPoints == 2
MaxIter == 4
InnerValues == {1, 2, 3}
WeightValues == {1, 3}
MeanValues == {<<0, 0>>, <<1, 2>>}
\* diagonals of the covariances: squares of 1, 2, 3
CovValues == {<<1, 1>>, <<4, 9>>}
ToleranceValues == {<<1, 10000>>, <<100, 1>>}

Gaussians == [mean : MeanValues, cov : CovValues]

SeqsUpTo(S, n) == UNION {[1..k -> S] : k \in 1..n}

buresIdle ==
    /\ pc = "idle" /\ weights = <<>> /\ xs = <<>> /\ tolerance = R(0)
    /\ min_iterations = 0 /\ max_iterations = 0 /\ inner_iterations = 1
    /\ w = <<>> /\ covs = <<>> /\ mu_bary = None /\ iteration = 0
    /\ cov = None /\ diffs = <<>> /\ inner_left = 0 /\ scan_left = 0
    /\ steps = 0 /\ result = None
dtwIdle ==
    /\ dtw_pc = "idle" /\ t1 = <<>> /\ t2 = <<>> /\ ground_cost = None
    /\ dist = <<>> /\ model_matrix = <<>> /\ carry = <<>> /\ scan_row = 0
    /\ dtw_out = None
costIdle == cost = None /\ op = "idle" /\ args = <<>> /\ out = None
ubIdle == ub_pc = "idle" /\ ub_signs = <<>> /\ ub_value = None /\ ub_out = None
concIdle == self_obj = None /\ active = 0 /\ suspended = None

---------------------------------------------------------------------------
(* Bures.barycenter(weights, xs, tolerance, **kwargs)                       *)

\* Variant of the normalisation that leaves the weights as they were given.
WeightsAsGiven(ws) == Tabulate(Len(ws), LAMBDA i : R(ws[i]))

\* Line 815: weights = weights / jnp.sum(weights)
NormalizeWeights(ws) == Tabulate(Len(ws), LAMBDA i : RNorm(ws[i], ISum(ws)))

BuresInit ==
    /\ pc = "call"
    /\ \E k \in 1..MaxPoints :
          /\ weights \in [1..k -> WeightValues]
          /\ xs \in [1..k -> Gaussians]
    /\ tolerance \in ToleranceValues
    /\ max_iterations \in 1..MaxIter
    /\ min_iterations \in 1..max_iterations
    /\ inner_iterations \in InnerValues
    /\ w = <<>> /\ covs = <<>> /\ mu_bary = None /\ iteration = 0
    /\ cov = None /\ diffs = <<>> /\ inner_left = 0 /\ scan_left = 0
    /\ steps = 0 /\ result = None
    /\ dtwIdle /\ costIdle /\ ubIdle /\ concIdle

\* Lines 814-824 and the start of covariance_fixpoint_iter: normalise the
\* weights, split xs, average the means, build the loop's initial state.
\* The vmap of scale_covariances needs covs and weights of the same leading
\* length; otherwise tracing the first step raises ValueError.
Barycenter ==
    /\ pc = "call"
    /\ LET nw == NormalizeWeights(weights)
           mc == x_to_means_and_covs(xs)
       IN  /\ w' = nw
           /\ covs' = mc.covs
           /\ mu_bary' = Tabulate(dimension, LAMBDA j :
                            RSum(Tabulate(Len(xs), LAMBDA i : RMul(nw[i], mc.means[i][j]))))
           /\ IF mc.lead # Len(nw)
              THEN /\ pc' = "error"
                   /\ UNCHANGED <<cov, diffs, scan_left>>
              ELSE /\ cov' = init_state_cov
                   /\ diffs' = init_state_diffs(max_iterations, inner_iterations)
                   /\ IF min_iterations = max_iterations
                      THEN /\ pc' = "scan"
                           /\ scan_left' = max_iterations \div inner_iterations
                      ELSE /\ pc' = "cond"
                           /\ scan_left' = 0
    /\ UNCHANGED <<weights, xs, tolerance, min_iterations, max_iterations,
                   inner_iterations, iteration, inner_left, steps, result>>
    /\ UNCHANGED <<dtwVars, costVars, ubVars, concVars>>

\* fixpoint_iter, while_loop mode: the continuation test, taken at a block
\* boundary only.
CondCheck ==
    /\ pc = "cond"
    /\ IF /\ iteration < max_iterations
          /\ (iteration < min_iterations \/ cond_fn(iteration, diffs))
       THEN pc' = "body" /\ inner_left' = inner_iterations
       ELSE pc' = "return" /\ inner_left' = 0
    /\ UNCHANGED <<weights, xs, tolerance, min_iterations, max_iterations,
                   inner_iterations, w, covs, mu_bary, iteration, cov, diffs,
                   scan_left, steps, result>>
    /\ UNCHANGED <<dtwVars, costVars, ubVars, concVars>>

\* fixpoint_iter, scan mode (min_iterations = max_iterations): a fixed
\* number of blocks, no test.
ScanBlock ==
    /\ pc = "scan"
    /\ IF scan_left > 0
       THEN pc' = "body" /\ inner_left' = inner_iterations /\ scan_left' = scan_left - 1
       ELSE pc' = "return" /\ inner_left' = 0 /\ scan_left' = scan_left
    /\ UNCHANGED <<weights, xs, tolerance, min_iterations, max_iterations,
                   inner_iterations, w, covs, mu_bary, iteration, cov, diffs,
                   steps, result>>
    /\ UNCHANGED <<dtwVars, costVars, ubVars, concVars>>

\* One inner iteration: body_fn, then iteration += 1.
BodyStep ==
    /\ pc = "body"
    /\ LET next_cov == next_cov_of(cov)
       IN  /\ cov' = next_cov
           /\ diffs' = DiffsSet(diffs, body_fn_index(iteration), diff_of(next_cov, cov))
    /\ iteration' = iteration + 1
    /\ steps' = steps + 1
    /\ inner_left' = inner_left - 1
    /\ pc' = IF inner_left > 1 THEN "body"
             ELSE IF min_iterations = max_iterations THEN "scan" ELSE "cond"
    /\ UNCHANGED <<weights, xs, tolerance, min_iterations, max_iterations,
                   inner_iterations, w, covs, mu_bary, scan_left, result>>
    /\ UNCHANGED <<dtwVars, costVars, ubVars, concVars>>

\* Line 825: pack the barycenter and return it with diffs.
Return ==
    /\ pc = "return"
    /\ result' = mean_and_cov_to_x(mu_bary, cov)
    /\ pc' = "done"
    /\ UNCHANGED <<weights, xs, tolerance, min_iterations, max_iterations,
                   inner_iterations, w, covs, mu_bary, iteration, cov, diffs,
                   inner_left, scan_left, steps>>
    /\ UNCHANGED <<dtwVars, costVars, ubVars, concVars>>

BuresNext == Barycenter \/ CondCheck \/ ScanBlock \/ BodyStep \/ Return

Spec == BuresInit /\ [][BuresNext]_vars

---------------------------------------------------------------------------
(* Claims about the fixed-point loop and the barycenter, checked under     *)
(* Spec.                                                                   *)

\* The diagnostic recorded for the block that was completed last.
LastRecorded == diffs[((iteration - 1) \div inner_iterations) + 1]

\* C1: the stopping predicate is evaluated at block boundaries only, and at
\* a boundary reached after min_iterations and before max_iterations the
\* loop stops if and only if the diagnostic recorded for the block just
\* completed is below tolerance.
C1_StopsIffLastDiagnosticBelowTolerance ==
    [][(/\ pc = "cond"
        /\ iteration >= min_iterations
        /\ iteration < max_iterations)
       => /\ iteration % inner_iterations = 0
          /\ (pc' = "return") <=> RLt(LastRecorded, tolerance)]_vars

\* C3: the barycenter of k >= 1 copies of one Gaussian, with any positive
\* weights, is that Gaussian, and the recorded diagnostic is below
\* tolerance when the call returns.
AllSame == \A i \in DOMAIN xs : xs[i] = xs[1]
Packed(g) ==
    mean_and_cov_to_x(Tabulate(dimension, LAMBDA j : R(g.mean[j])),
                      Tabulate(dimension, LAMBDA j : R(g.cov[j])))
C3_BarycenterOfCopies ==
    (pc \in {"done", "error"} /\ AllSame) =>
        /\ pc = "done"
        /\ result = Packed(xs[1])
        /\ iteration > 0
        /\ RLt(LastRecorded, tolerance)

CeilDiv(maxit, inner) ==
    CHOOSE n \in 0..maxit : n * inner >= maxit /\ (n = 0 \/ (n - 1) * inner < maxit)

\* Normalised squared Frobenius difference of two diagonal matrices of
\* dimension-by-dimension entries.
FrobeniusDiff(a, b) ==
    RDiv(RSum(Tabulate(dimension, LAMBDA j : RMul(RSub(a[j], b[j]), RSub(a[j], b[j])))),
         R(dimension * dimension))

DiffsShape ==
    pc \in {"cond", "scan", "body", "return", "done"} =>
        /\ Len(diffs) = CeilDiv(max_iterations, inner_iterations)
        /\ \A k \in DOMAIN diffs :
              (k - 1) * inner_iterations >= iteration => diffs[k] = R(-1)

LastStepRecords ==
    (pc = "body" /\ inner_left = 1) =>
        /\ iteration' % inner_iterations = 0
        /\ diffs'[iteration' \div inner_iterations] = FrobeniusDiff(cov', cov)

OtherBlocksUntouched ==
    pc \in {"cond", "scan", "body", "return"} =>
        \A k \in DOMAIN diffs :
            (pc # "body" \/ k - 1 # iteration \div inner_iterations)
                => diffs'[k] = diffs[k]

RecordedOncePerBlock ==
    (pc = "body" /\ inner_left > 1) => diffs' = diffs

\* C13: diffs has ceil(max_iterations / inner_iterations) entries, one per
\* block: after the last step of block k entry k holds the normalised
\* squared Frobenius difference between that step's two estimates, the
\* entries of the other blocks are never touched, the entry of a block
\* that has not run keeps its initial -1, and a step that is not the last
\* of its block records nothing.
C13_OneDiagnosticPerBlock ==
    /\ [](DiffsShape)
    /\ [][LastStepRecords]_vars
    /\ [][OtherBlocksUntouched]_vars
    /\ [][RecordedOncePerBlock]_vars

\* C10: the loop never executes more than max_iterations fixed-point steps.
C10_AtMostMaxIterationsSteps == steps <= max_iterations

---------------------------------------------------------------------------
(* The simple costs.  A cost object is a record [cls, p]; p is the norm    *)
(* order or power of the classes that take one, and 0 otherwise.  Points   *)
(* are sequences of rationals.                                             *)

RAbs(a) == <<Abs(a[1]), a[2]>>

RECURSIVE RPow(_, _)
RPow(a, k) == IF k = 0 THEN R(1) ELSE RMul(a, RPow(a, k - 1))

VSub(x, y) == Tabulate(Len(x), LAMBDA i : RSub(x[i], y[i]))
VAdd(x, y) == Tabulate(Len(x), LAMBDA i : RAdd(x[i], y[i]))
VNeg(x) == Tabulate(Len(x), LAMBDA i : RNeg(x[i]))
VInt(x) == Tabulate(Len(x), LAMBDA i : R(x[i]))

\* jnp.vdot(x, y)
vdot(x, y) == RSum(Tabulate(Len(x), LAMBDA i : RMul(x[i], y[i])))

\* jnp.sum(x ** 2)
SumSq(x) == RSum(Tabulate(Len(x), LAMBDA i : RMul(x[i], x[i])))

\* mu.norm(z, p) ** k, for the orders and powers that stay rational:
\* p = 1 with any k, p = 2 with an even k.
NormPow(z, p, k) ==
    IF p = 1
    THEN RPow(RSum(Tabulate(Len(z), LAMBDA i : RAbs(z[i]))), k)
    ELSE RPow(SumSq(z), k \div 2)

\* self.q = 1.0 / (1.0 - (1.0 / p)) if p > 1.0 else jnp.inf; 0 stands for inf
DualOrder(p) == IF p > 1 THEN p \div (p - 1) ELSE 0

TIClasses == {"SqEuclidean", "PNormP", "SqPNorm", "EuclideanP", "RegTICost"}
IsTI(c) == c.cls \in TIClasses
HasLegendre(c) == c.cls \in {"SqEuclidean", "PNormP", "SqPNorm"}

\* regularizers.Regularization(PostComposition(L1, alpha=lam), a=None,
\* rho=rho)(z): rho / 2 * ||z||^2 + lam * ||z||_1
Regularization_call(c, z) ==
    RAdd(RMul(RMul(c.rho, <<1, 2>>), SumSq(z)),
         RMul(c.lam, RSum(Tabulate(Len(z), LAMBDA i : RAbs(z[i])))))

\* h of the translation-invariant costs
h(c, z) ==
    CASE c.cls = "SqEuclidean" -> SumSq(z)
      [] c.cls = "RegTICost"   -> Regularization_call(c, z)
      [] c.cls = "PNormP"      -> RDiv(NormPow(z, c.p, c.p), R(c.p))
      [] c.cls = "SqPNorm"     -> RMul(<<1, 2>>, NormPow(z, c.p, 2))
      [] c.cls = "EuclideanP"  -> NormPow(z, 2, c.p)

\* Variant of h_legendre with SqEuclidean's factor 1/2 in place of 1/4.
h_legendre_half(c, z) ==
    CASE c.cls = "SqEuclidean" -> RMul(<<1, 2>>, SumSq(z))
      [] c.cls = "PNormP"      ->
            RDiv(NormPow(z, DualOrder(c.p), DualOrder(c.p)), R(DualOrder(c.p)))
      [] c.cls = "SqPNorm"     -> RMul(<<1, 2>>, NormPow(z, DualOrder(c.p), 2))

h_legendre(c, z) ==
    CASE c.cls = "SqEuclidean" -> RMul(<<1, 4>>, SumSq(z))
      [] c.cls = "PNormP"      ->
            RDiv(NormPow(z, DualOrder(c.p), DualOrder(c.p)), R(DualOrder(c.p)))
      [] c.cls = "SqPNorm"     -> RMul(<<1, 2>>, NormPow(z, DualOrder(c.p), 2))

\* Variant of SqEuclidean.norm that sums absolute values.
SqEuclidean_norm_abs(x) == RSum(Tabulate(Len(x), LAMBDA i : RAbs(x[i])))

\* SqEuclidean.norm
SqEuclidean_norm(x) == SumSq(x)

\* Variant of SqEuclidean.__call__ with the cross term's sign flipped.
SqEuclidean_call_plus(x, y) ==
    RAdd(RAdd(SqEuclidean_norm(x), SqEuclidean_norm(y)), RMul(R(2), vdot(x, y)))

\* SqEuclidean.__call__: norm(x) + norm(y) - 2 <x, y>
SqEuclidean_call(x, y) ==
    LET cross_term == RMul(R(-2), vdot(x, y))
    IN  RAdd(RAdd(SqEuclidean_norm(x), SqEuclidean_norm(y)), cross_term)

\* Dotp.__call__
Dotp_call(x, y) == RNeg(vdot(x, y))

\* TICost.__call__
TICost_call(c, x, y) == h(c, VSub(x, y))

\* cost(x, y), by the class's method resolution
Call(c, x, y) ==
    CASE c.cls = "SqEuclidean" -> SqEuclidean_call(x, y)
      [] c.cls = "Dotp"        -> Dotp_call(x, y)
      [] OTHER                 -> TICost_call(c, x, y)

\* Variant of all_pairs with the two vmaps nested the other way round.
all_pairs_transposed(c, x, y) ==
    Tabulate(Len(y), LAMBDA j : Tabulate(Len(x), LAMBDA i : Call(c, x[i], y[j])))

\* CostFn.all_pairs: vmap over x of vmap over y of cost(x_, y_)
all_pairs(c, x, y) ==
    Tabulate(Len(x), LAMBDA i : Tabulate(Len(y), LAMBDA j : Call(c, x[i], y[j])))

\* jnp.average(xs, weights=weights, axis=0): sum_i w_i xs_i / sum_i w_i
average(pts, ws) ==
    Tabulate(Len(pts[1]), LAMBDA j :
        RDiv(RSum(Tabulate(Len(pts), LAMBDA i : RMul(ws[i], pts[i][j]))), RSum(ws)))

\* TICost.barycenter and SqEuclidean.barycenter (the same body)
TICost_barycenter(ws, pts) == <<average(pts, ws), None>>
SqEuclidean_barycenter(ws, pts) == <<average(pts, ws), None>>

\* The exception a call raises, with its message.
Raise(type, msg) == <<"raise", type, msg>>
Raised(v) == v[1] = "raise"

\* Variant of CostFn.barycenter that returns the weighted average.
CostFn_barycenter_average(ws, pts) == <<average(pts, ws), None>>

\* CostFn.barycenter
CostFn_barycenter(ws, pts) == Raise("NotImplementedError", "Barycenter is not implemented.")

barycenter(c, ws, pts) ==
    CASE c.cls = "SqEuclidean" -> SqEuclidean_barycenter(ws, pts)
      [] IsTI(c)               -> TICost_barycenter(ws, pts)
      [] OTHER                 -> CostFn_barycenter(ws, pts)

\* jax.grad of a function that is a polynomial of degree at most 2, on
\* which the central difference with step 1 is the exact partial derivative.
Shift(z, i, d) == [z EXCEPT ![i] = RAdd(z[i], d)]
grad(f(_), z) ==
    Tabulate(Len(z), LAMBDA i :
        RDiv(RSub(f(Shift(z, i, R(1))), f(Shift(z, i, R(-1)))), R(2)))

\* Variant of TICost.twist_operator with the two branches' signs exchanged.
TICost_twist_operator_swapped(c, vec, dual_vec, variable) ==
    IF variable
    THEN VSub(vec, grad(LAMBDA z : h_legendre(c, z), VNeg(dual_vec)))
    ELSE VAdd(vec, grad(LAMBDA z : h_legendre(c, z), dual_vec))

\* TICost.twist_operator
TICost_twist_operator(c, vec, dual_vec, variable) ==
    IF variable
    THEN VAdd(vec, grad(LAMBDA z : h_legendre(c, z), VNeg(dual_vec)))
    ELSE VSub(vec, grad(LAMBDA z : h_legendre(c, z), dual_vec))

\* Dotp.twist_operator
Dotp_twist_operator(vec, dual_vec, variable) ==
    IF variable THEN VNeg(vec) ELSE VNeg(dual_vec)

\* CostFn.twist_operator
CostFn_twist_operator(vec, dual_vec, variable) ==
    Raise("NotImplementedError", "Twist operator is not implemented.")

twist_operator(c, vec, dual_vec, variable) ==
    CASE c.cls = "Dotp" -> Dotp_twist_operator(vec, dual_vec, variable)
      [] IsTI(c)        -> TICost_twist_operator(c, vec, dual_vec, variable)
      [] OTHER          -> CostFn_twist_operator(vec, dual_vec, variable)

\* grad(h_legendre)(grad(h)(z))
LegendreRoundTrip(c, z) ==
    grad(LAMBDA u : h_legendre(c, u), grad(LAMBDA u : h(c, u), z))

---------------------------------------------------------------------------
(* Bounds and inputs of the cost model.  A cost object is immutable; a run  *)
(* constructs one and applies one operation to it.                         *)

MaxCoord == 1
MaxBatch == 2
Coords == (-MaxCoord)..MaxCoord
Vectors == {VInt(<<a, b>>) : a \in Coords, b \in Coords}
BatchPoints == {VInt(<<0, 0>>), VInt(<<1, 0>>), VInt(<<1, 2>>)}
Batches == SeqsUpTo(BatchPoints, MaxBatch)

CostFns ==
    {[cls |-> "SqEuclidean", p |-> 0], [cls |-> "Dotp", p |-> 0]}
    \cup [cls : {"PNormP", "SqPNorm"}, p : {1, 2}]
    \cup [cls : {"EuclideanP"}, p : {2, 4}]

\* The costs whose h and h_legendre are quadratic, so that grad is exact.
Quadratic(c) == c.cls = "SqEuclidean" \/ (c.cls \in {"PNormP", "SqPNorm"} /\ c.p = 2)

CostInit ==
    /\ cost \in CostFns
    /\ op = "new" /\ args = <<>> /\ out = None
    /\ buresIdle /\ dtwIdle /\ ubIdle /\ concIdle

\* cost(x, y)
CallOp ==
    /\ op = "new"
    /\ \E x \in Vectors, y \in Vectors :
          /\ args' = <<x, y>>
          /\ out' = Call(cost, x, y)
    /\ op' = "call"
    /\ UNCHANGED <<cost, buresVars, dtwVars, ubVars, concVars>>

\* cost.all_pairs(x, y)
AllPairsOp ==
    /\ op = "new"
    /\ \E x \in Batches, y \in Batches :
          /\ args' = <<x, y>>
          /\ out' = all_pairs(cost, x, y)
    /\ op' = "all_pairs"
    /\ UNCHANGED <<cost, buresVars, dtwVars, ubVars, concVars>>

\* cost.twist_operator(vec, dual_vec, variable)
TwistOp ==
    /\ op = "new"
    /\ cost.cls = "Dotp" \/ Quadratic(cost) \/ ~IsTI(cost)
    /\ \E vec \in Vectors, dual_vec \in Vectors, variable \in BOOLEAN :
          /\ args' = <<vec, dual_vec, variable>>
          /\ out' = twist_operator(cost, vec, dual_vec, variable)
    /\ op' = "twist_operator"
    /\ UNCHANGED <<cost, buresVars, dtwVars, ubVars, concVars>>

\* jax.grad(cost.h_legendre)(jax.grad(cost.h)(z))
RoundTripOp ==
    /\ op = "new"
    /\ Quadratic(cost)
    /\ \E z \in Vectors :
          /\ args' = <<z>>
          /\ out' = LegendreRoundTrip(cost, z)
    /\ op' = "round_trip"
    /\ UNCHANGED <<cost, buresVars, dtwVars, ubVars, concVars>>

\* cost.barycenter(weights, xs): weights are non-negative with a positive sum
BarycenterWeights == {R(0), R(3), <<1, 4>>}
BarycenterOp ==
    /\ op = "new"
    /\ cost.cls # "Bures"
    /\ \E xb \in Batches :
       \E ws \in [1..Len(xb) -> BarycenterWeights] :
          /\ RGt(RSum(ws), R(0))
          /\ args' = <<ws, xb>>
          /\ out' = barycenter(cost, ws, xb)
    /\ op' = "barycenter"
    /\ UNCHANGED <<cost, buresVars, dtwVars, ubVars, concVars>>

CostNext == CallOp \/ AllPairsOp \/ TwistOp \/ RoundTripOp \/ BarycenterOp

SpecCost == CostInit /\ [][CostNext]_vars

---------------------------------------------------------------------------
(* SoftDTW._soft_dtw.  +infinity is the pair <<1, 0>>.                     *)

Inf == <<1, 0>>
EAdd(a, b) == IF a = Inf \/ b = Inf THEN Inf ELSE RAdd(a, b)
ELt(a, b) == a # Inf /\ (b = Inf \/ RLt(a, b))
EMin(a, b) == IF ELt(b, a) THEN b ELSE a

\* mu.softmin over the last axis of three stacked values, at its
\* gamma -> 0 limit: the ordinary minimum.
softmin(a, b, c) == EMin(a, EMin(b, c))

Transpose(mat) ==
    Tabulate(Len(mat[1]), LAMBDA j : Tabulate(Len(mat), LAMBDA i : mat[i][j]))

\* np.tri(N, M, k=0) and mask & mask[::-1, ::-1], with 0-based indices
tri(i, j) == j <= i
mask(N, M, i, j) == tri(i, j) /\ tri(N - 1 - i, M - 1 - j)

\* model_matrix.T.at[mask.T].set(dist.ravel()).T: the cells of mask.T that
\* are set take the entries of dist.ravel() in row-major order of mask.T.
ScatterRank(N, M, i, j) ==
    Cardinality({pos \in (0..(M - 1)) \X (0..(N - 1)) :
                    /\ mask(N, M, pos[2], pos[1])
                    /\ (pos[1] < j \/ (pos[1] = j /\ pos[2] < i))})

ModelMatrix(d) ==
    LET n == Len(d)
        m == Len(d[1])
        N == n + m - 1
    IN  Tabulate(N, LAMBDA i : Tabulate(n, LAMBDA j :
            IF mask(N, n, i - 1, j - 1)
            THEN LET r == ScatterRank(N, n, i - 1, j - 1)
                 IN  d[(r \div m) + 1][(r % m) + 1]
            ELSE Inf))

\* jnp.pad(row, (1, 0), constant_values=jnp.inf)
PadLeft(row) == <<Inf>> \o row

\* model_matrix[i] with a static index: past the end it is clamped to the
\* last row.
RowAt(mm, i) == mm[(IF i >= Len(mm) THEN Len(mm) - 1 ELSE i) + 1]

\* init of the scan
ScanInit(mm) ==
    <<PadLeft(RowAt(mm, 0)),
      PadLeft(Tabulate(Len(RowAt(mm, 1)), LAMBDA j : EAdd(RowAt(mm, 1)[j], mm[1][1])))>>

\* body of the scan: the next antidiagonal from the two before it
body(two_ago, one_ago, current_antidiagonal) ==
    LET n == Len(current_antidiagonal)
        diagonal == SubSeq(two_ago, 1, n)
        right == SubSeq(one_ago, 1, n)
        down == SubSeq(one_ago, 2, n + 1)
        best == Tabulate(n, LAMBDA j : softmin(diagonal[j], right[j], down[j]))
        next_row == Tabulate(n, LAMBDA j : EAdd(best[j], current_antidiagonal[j]))
    IN  <<one_ago, PadLeft(next_row)>>

\* t[:, None] of a 1-d sequence: one point per element
AsPoints(t) == Tabulate(Len(t), LAMBDA i : <<R(t[i])>>)

\* The classic DTW table: R[1,1] = d[1,1] and
\* R[i,j] = d[i,j] + min(R[i-1,j-1], R[i-1,j], R[i,j-1]).
RECURSIVE ClassicDTW(_, _, _)
ClassicDTW(d, i, j) ==
    IF i < 1 \/ j < 1 THEN Inf
    ELSE IF i = 1 /\ j = 1 THEN d[1][1]
    ELSE EAdd(d[i][j], EMin(ClassicDTW(d, i - 1, j - 1),
                            EMin(ClassicDTW(d, i - 1, j), ClassicDTW(d, i, j - 1))))

MaxLen == 3
MaxVal == 2
GroundCosts == {[cls |-> "SqEuclidean", p |-> 0], [cls |-> "Dotp", p |-> 0]}

DtwInit ==
    /\ dtw_pc = "call"
    /\ t1 \in SeqsUpTo(0..MaxVal, MaxLen)
    /\ t2 \in SeqsUpTo(0..MaxVal, MaxLen)
    /\ ground_cost \in GroundCosts
    /\ dist = <<>> /\ model_matrix = <<>> /\ carry = <<>> /\ scan_row = 0
    /\ dtw_out = None
    /\ buresIdle /\ costIdle /\ ubIdle /\ concIdle

\* Lines 1004-1024: the ground-cost matrix, its transposition when n < m,
\* the antidiagonal layout and the scan's initial carry.
SoftDtwStart ==
    /\ dtw_pc = "call"
    /\ LET d0 == all_pairs(ground_cost, AsPoints(t1), AsPoints(t2))
           d == IF Len(d0) < Len(d0[1]) THEN Transpose(d0) ELSE d0
           mm == ModelMatrix(d)
       IN  /\ dist' = d
           /\ model_matrix' = mm
           /\ carry' = ScanInit(mm)
    /\ scan_row' = 2
    /\ dtw_pc' = "scan"
    /\ UNCHANGED <<t1, t2, ground_cost, dtw_out>>
    /\ UNCHANGED <<buresVars, costVars, ubVars, concVars>>

\* jax.lax.scan(body, init, model_matrix[2:]): one antidiagonal
SoftDtwScan ==
    /\ dtw_pc = "scan"
    /\ scan_row < Len(model_matrix)
    /\ carry' = body(carry[1], carry[2], model_matrix[scan_row + 1])
    /\ scan_row' = scan_row + 1
    /\ UNCHANGED <<dtw_pc, t1, t2, ground_cost, dist, model_matrix, dtw_out>>
    /\ UNCHANGED <<buresVars, costVars, ubVars, concVars>>

\* return carry[-1]
SoftDtwReturn ==
    /\ dtw_pc = "scan"
    /\ scan_row >= Len(model_matrix)
    /\ dtw_out' = carry[2][Len(carry[2])]
    /\ dtw_pc' = "done"
    /\ UNCHANGED <<t1, t2, ground_cost, dist, model_matrix, carry, scan_row>>
    /\ UNCHANGED <<buresVars, costVars, ubVars, concVars>>

DtwNext == SoftDtwStart \/ SoftDtwScan \/ SoftDtwReturn

SpecDtw == DtwInit /\ [][DtwNext]_vars

\* C2: with the hard min, _soft_dtw returns the classic DTW cost R[n,m] of
\* the ground-cost matrix, for all sequence lengths n, m >= 1.
C2_SoftDtwIsClassicDtw ==
    dtw_pc = "done" =>
        dtw_out = ClassicDTW(all_pairs(ground_cost, AsPoints(t1), AsPoints(t2)),
                             Len(t1), Len(t2))

---------------------------------------------------------------------------
(* Claims about the simple costs, checked under SpecCost.                  *)

ZeroVec == VInt(<<0, 0>>)

\* C4: all_pairs(X, Y) is an n-by-m matrix whose entry [i, j] is
\* cost(X[i], Y[j]), for every cost and all batches X of n and Y of m points.
C4_AllPairsIsOuterProduct ==
    op = "all_pairs" =>
        /\ Len(out) = Len(args[1])
        /\ \A i \in 1..Len(args[1]) :
              /\ Len(out[i]) = Len(args[2])
              /\ \A j \in 1..Len(args[2]) :
                    out[i][j] = Call(cost, args[1][i], args[2][j])

C4_Witness ==
    /\ op = "all_pairs" /\ cost.cls = "Dotp"
    /\ Len(args[1]) = 2 /\ Len(args[2]) = 1
    /\ out[1][1] # out[2][1]

C6_TwistInvertsGradient ==
    (op = "twist_operator" /\ Quadratic(cost)) =>
        LET vec == args[1]
            z == args[2]
        IN  /\ ~args[3] =>
                  /\ out = VSub(vec, grad(LAMBDA u : h_legendre(cost, u), z))
                  /\ grad(LAMBDA x : Call(cost, x, out), vec) = z
            /\ args[3] =>
                  /\ out = VAdd(vec, grad(LAMBDA u : h_legendre(cost, u), VNeg(z)))
                  /\ grad(LAMBDA y : Call(cost, out, y), vec) = z
            /\ twist_operator(cost, vec, z, TRUE) = twist_operator(cost, vec, z, FALSE)

C6_Witness ==
    /\ op = "twist_operator" /\ cost.cls = "SqEuclidean" /\ args[3]
    /\ args[1] = VInt(<<1, 0>>) /\ args[2] = VInt(<<1, -1>>)
    /\ out = <<<<1, 2>>, <<1, 2>>>>

\* C7: Dotp.twist_operator returns the twist inverse of c(x, y) = -<x, y>:
\* for variable False the y with grad_1 c(vec, y) = dual_vec, for variable
\* True the x with grad_2 c(x, vec) = dual_vec.
C7_DotpTwistInvertsGradient ==
    (op = "twist_operator" /\ cost.cls = "Dotp") =>
        /\ ~args[3] => grad(LAMBDA x : Call(cost, x, out), args[1]) = args[2]
        /\ args[3] => grad(LAMBDA y : Call(cost, out, y), args[1]) = args[2]

---------------------------------------------------------------------------
(* UnbalancedBures.__call__, from the four log-determinants on: the signs  *)
(* that slogdet returned, the finite value of the cross term and the two   *)
(* masses are the inputs.  NaN is the pair <<0, 0>>.                       *)

NaN == <<0, 0>>
FAdd(a, b) == IF a = NaN \/ b = NaN THEN NaN ELSE RAdd(a, b)

\* Variant of the guard that accepts an even number of negative signs.
pos_signs_product(sg) == sg.c * sg.c_ab * sg.ab * sg.t_ab = 1

\* pos_signs = (sldet_c + sldet_c_ab + sldet_ab + sldet_t_ab) == 4
pos_signs(sg) == sg.c + sg.c_ab + sg.ab + sg.t_ab = 4

\* UnbalancedBures.norm: gamma * x[0]
UnbalancedBures_norm(gamma, mass) == RMul(R(gamma), R(mass))

\* jax.lax.cond(pos_signs, value, nan), then norm(x) + norm(y) + cross_term
UnbalancedBures_call(sg, v) ==
    LET cross_term == IF pos_signs(sg) THEN v.cross ELSE NaN
    IN  FAdd(RAdd(UnbalancedBures_norm(v.gamma, v.mass_x),
                  UnbalancedBures_norm(v.gamma, v.mass_y)), cross_term)

Signs == {-1, 0, 1}
SignTuples == [c : Signs, c_ab : Signs, ab : Signs, t_ab : Signs]
UbValues == [gamma : {1, 2}, mass_x : {1, 3}, mass_y : {1}, cross : {R(-3), <<1, 2>>, NaN}]

UbInit ==
    /\ ub_pc = "call"
    /\ ub_signs \in SignTuples
    /\ ub_value \in UbValues
    /\ ub_out = None
    /\ buresIdle /\ dtwIdle /\ costIdle /\ concIdle

UbCall ==
    /\ ub_pc = "call"
    /\ ub_out' = UnbalancedBures_call(ub_signs, ub_value)
    /\ ub_pc' = "done"
    /\ UNCHANGED <<ub_signs, ub_value, buresVars, dtwVars, costVars, concVars>>

UbNext == UbCall

SpecUb == UbInit /\ [][UbNext]_vars

AllPositive(sg) == sg.c = 1 /\ sg.c_ab = 1 /\ sg.ab = 1 /\ sg.t_ab = 1

\* C9: the cost is not NaN only when all four log-determinant signs are
\* +1; for every other combination of signs in {-1, 0, +1} it is NaN, and
\* the call returns a value in every case.
C9_NaNUnlessAllSignsPositive ==
    ub_pc = "done" =>
        /\ ub_out # None
        /\ ub_out # NaN => AllPositive(ub_signs)
        /\ ~AllPositive(ub_signs) => ub_out = NaN

C9_Witness ==
    /\ ub_pc = "done"
    /\ ub_signs = [c |-> -1, c_ab |-> -1, ab |-> 1, t_ab |-> 1]
    /\ ub_out = NaN

---------------------------------------------------------------------------
(* The barycenter operations together: Bures.barycenter on weights that    *)
(* may be zero, and the barycenter of the simple costs.                    *)

BaryWeightValues == {0, 1, 3}

BuresBaryInit ==
    /\ pc = "call"
    /\ \E k \in 1..MaxPoints :
          /\ weights \in [1..k -> BaryWeightValues]
          /\ xs \in [1..k -> Gaussians]
    /\ ISum(weights) > 0
    /\ tolerance \in ToleranceValues
    /\ max_iterations = MaxIter
    /\ min_iterations \in {1, MaxIter}
    /\ inner_iterations \in {1, 2}
    /\ w = <<>> /\ covs = <<>> /\ mu_bary = None /\ iteration = 0
    /\ cov = None /\ diffs = <<>> /\ inner_left = 0 /\ scan_left = 0
    /\ steps = 0 /\ result = None
    /\ dtwIdle /\ costIdle /\ ubIdle /\ concIdle

SpecBarycenter == (BuresBaryInit \/ CostInit) /\ [][BuresNext \/ CostNext]_vars

\* sum_i w_i * p_i[j] / sum_i w_i, from the weights as the caller gave them
WeightedMean(ws, pts, j) ==
    RDiv(RSum(Tabulate(Len(pts), LAMBDA i : RMul(ws[i], pts[i][j]))), RSum(ws))

\* C12: every barycenter operation normalises the weights itself.  The
\* weights Bures.barycenter works from are w / sum(w), they sum to 1 and
\* normalising them again changes nothing, and the mean of its result is
\* sum_i w_i mean_i / sum_i w_i; the barycenter of a translation-invariant
\* cost is that weighted mean and is the same for w and for w / sum(w).
C12_BarycenterNormalizesWeights ==
    /\ pc \notin {"idle", "call"} =>
          /\ \A i \in DOMAIN weights : w[i] = RDiv(R(weights[i]), R(ISum(weights)))
          /\ RSum(w) = R(1)
          /\ Tabulate(Len(w), LAMBDA i : RDiv(w[i], RSum(w))) = w
    /\ pc = "done" =>
          \A j \in 1..dimension :
              result.mean[j] =
                  WeightedMean(WeightsAsGiven(weights),
                               Tabulate(Len(xs), LAMBDA i : VInt(xs[i].mean)), j)
    /\ (op = "barycenter" /\ IsTI(cost)) =>
          LET ws == args[1]
              pts == args[2]
              nws == Tabulate(Len(ws), LAMBDA i : RDiv(ws[i], RSum(ws)))
          IN  /\ out = barycenter(cost, nws, pts)
              /\ \A j \in 1..Len(pts[1]) : out[1][j] = WeightedMean(ws, pts, j)

C12_Witness ==
    /\ pc = "done" /\ weights = <<3, 1>>
    /\ xs[1].mean = <<0, 0>> /\ xs[2].mean = <<1, 2>>
    /\ result.mean = <<<<1, 4>>, <<1, 2>>>>

---------------------------------------------------------------------------
(* SoftDTW.__call__, with _soft_dtw as a function of its two sequences.    *)

\* jax.lax.scan(body, init, model_matrix[2:]): the carry after the last row
RECURSIVE ScanFrom(_, _, _)
ScanFrom(c, mm, i) ==
    IF i > Len(mm) THEN c ELSE ScanFrom(body(c[1], c[2], mm[i]), mm, i + 1)

\* SoftDTW._soft_dtw
soft_dtw(gc, a, b) ==
    LET d0 == all_pairs(gc, AsPoints(a), AsPoints(b))
        d == IF Len(d0) < Len(d0[1]) THEN Transpose(d0) ELSE d0
        mm == ModelMatrix(d)
        final == ScanFrom(ScanInit(mm), mm, 3)
    IN  final[2][Len(final[2])]

\* Variant of SoftDTW.__call__ without the factor 1/2 on the self terms.
SoftDTW_call_unhalved(c, x, y) ==
    LET c_xy == soft_dtw(c.ground_cost, x, y)
    IN  IF c.debiased
        THEN RSub(c_xy, RAdd(soft_dtw(c.ground_cost, x, x), soft_dtw(c.ground_cost, y, y)))
        ELSE c_xy

\* SoftDTW.__call__
SoftDTW_call(c, x, y) ==
    LET c_xy == soft_dtw(c.ground_cost, x, y)
    IN  IF c.debiased
        THEN RSub(c_xy, RMul(<<1, 2>>, RAdd(soft_dtw(c.ground_cost, x, x),
                                             soft_dtw(c.ground_cost, y, y))))
        ELSE c_xy

Reverse(t) == Tabulate(Len(t), LAMBDA i : t[Len(t) + 1 - i])

SoftDTWs == [cls : {"SoftDTW"}, ground_cost : GroundCosts, debiased : BOOLEAN]

DtwCallInit ==
    /\ cost \in SoftDTWs
    /\ op = "new" /\ args = <<>> /\ out = None
    /\ buresIdle /\ dtwIdle /\ ubIdle /\ concIdle

\* cost(x, y) for a SoftDTW cost
SoftDtwCallOp ==
    /\ op = "new"
    /\ cost.cls = "SoftDTW"
    /\ \E x \in SeqsUpTo(0..MaxVal, MaxLen) :
       \E y \in {x, Reverse(x), <<MaxVal>>} :
          /\ args' = <<x, y>>
          /\ out' = SoftDTW_call(cost, x, y)
    /\ op' = "call"
    /\ UNCHANGED <<cost, buresVars, dtwVars, ubVars, concVars>>

SpecDtwCall == DtwCallInit /\ [][SoftDtwCallOp]_vars

\* C14: a debiased SoftDTW cost of a sequence against itself is 0, for
\* every sequence and every ground cost.
C14_DebiasedSelfCostIsZero ==
    (op = "call" /\ cost.cls = "SoftDTW" /\ cost.debiased /\ args[1] = args[2])
        => out = R(0)

C14_Witness ==
    /\ op = "call" /\ cost.cls = "SoftDTW" /\ cost.debiased
    /\ cost.ground_cost.cls = "Dotp"
    /\ args = <<(<<1, 2, 0>>), (<<1, 2, 0>>)>>
    /\ soft_dtw(cost.ground_cost, args[1], args[1]) # R(0)
    /\ out = R(0)

---------------------------------------------------------------------------
(* Cost objects with their hyperparameters: construction, the pytree       *)
(* methods, the padding vector and the capabilities a class defines.       *)

\* ridge: float = 1e-8 (Cosine.__init__, Arccos.__init__)
DefaultRidge == <<1, 100000000>>

\* The constructors: the attributes __init__ stores.
Plain_init(cls) == [cls |-> cls]
PNorm_init(cls, p) == [cls |-> cls, p |-> p]
Cosine_init(ridge) == [cls |-> "Cosine", ridge |-> ridge]
Arccos_init(n, ridge) == [cls |-> "Arccos", n |-> n, ridge |-> ridge]
Bures_init(dim, sqrtm_kw) ==
    [cls |-> "Bures", dimension |-> dim,
     sqrtm_kw |-> IF sqrtm_kw = None THEN "{}" ELSE sqrtm_kw]
UnbalancedBures_init(dim, sigma, gamma, kwargs) ==
    [cls |-> "UnbalancedBures", dimension |-> dim, sigma |-> sigma,
     gamma |-> gamma, sqrtm_kw |-> kwargs]
SoftDTW_init(gamma, gc, debiased) ==
    [cls |-> "SoftDTW", gamma |-> gamma,
     ground_cost |-> IF gc = Plain_init("None") THEN Plain_init("SqEuclidean") ELSE gc,
     debiased |-> debiased]
\* regularizers.PostComposition(regularizer, alpha=lam) keeps the regularizer
\* as .f and lam as .alpha; regularizers.Regularization(..., rho=rho) keeps rho.
RegTICost_init(regularizer, lam, rho) ==
    [cls |-> "RegTICost", regularizer_f |-> regularizer, lam |-> lam, rho |-> rho]

PNormClasses == {"SqPNorm", "PNormP", "EuclideanP"}

\* tree_flatten: <<children, aux_data>>
tree_flatten(c) ==
    CASE c.cls \in PNormClasses      -> << <<>>, <<c.p>> >>
      [] c.cls = "RegTICost"         -> << <<c.regularizer_f, c.lam, c.rho>>, "{}" >>
      [] c.cls = "Arccos"            -> << <<>>, [n |-> c.n, ridge |-> c.ridge] >>
      [] c.cls = "Bures"             -> << <<>>, <<c.dimension, c.sqrtm_kw>> >>
      [] c.cls = "UnbalancedBures"   ->
            << <<>>, <<c.dimension, c.sigma, c.gamma, c.sqrtm_kw>> >>
      [] c.cls = "SoftDTW"           ->
            << <<c.gamma, c.ground_cost>>, [debiased |-> c.debiased] >>
      [] OTHER                       -> << <<>>, None >>

\* CostFn.tree_unflatten: cls(*children), with children = ()
CostFn_tree_unflatten(cls) ==
    IF cls = "Cosine" THEN Cosine_init(DefaultRidge) ELSE Plain_init(cls)

\* tree_unflatten(aux_data, children), by the class's method resolution
tree_unflatten(cls, aux_data, children) ==
    CASE cls \in PNormClasses      -> PNorm_init(cls, aux_data[1])
      [] cls = "RegTICost"         ->
            RegTICost_init(children[1], children[2], children[3])
      [] cls = "Arccos"            -> Arccos_init(aux_data.n, aux_data.ridge)
      [] cls = "Bures"             -> Bures_init(aux_data[1], aux_data[2])
      [] cls = "UnbalancedBures"   ->
            UnbalancedBures_init(aux_data[1], aux_data[2], aux_data[3], aux_data[4])
      [] cls = "SoftDTW"           ->
            SoftDTW_init(children[1], children[2], aux_data.debiased)
      [] OTHER                     -> CostFn_tree_unflatten(cls)

\* Hyperparameter values the objects are built from.
MaxOrder == 3
RidgeValues == {DefaultRidge, <<1, 2>>}
ScaleValues == {R(1), <<1, 2>>}
SqrtmKwValues == {"{}", "{threshold: 1e-3}"}
GroundCostValues ==
    {Plain_init("None"), Plain_init("Dotp"), Cosine_init(<<1, 2>>), PNorm_init("PNormP", 2)}

AllCosts ==
    {Plain_init(cls) : cls \in {"Dotp", "Euclidean", "SqEuclidean"}}
    \cup {PNorm_init(cls, q) : cls \in PNormClasses, q \in 1..MaxOrder}
    \cup {Cosine_init(r) : r \in RidgeValues}
    \cup {Arccos_init(n, r) : n \in 0..MaxOrder, r \in RidgeValues}
    \cup {Bures_init(d, kw) : d \in 1..MaxOrder, kw \in SqrtmKwValues \cup {None}}
    \cup {UnbalancedBures_init(d, sg, gm, kw) :
            d \in 1..MaxOrder, sg \in ScaleValues, gm \in ScaleValues, kw \in SqrtmKwValues}
    \cup {RegTICost_init(f, lam, rho) :
            f \in {"L1", "SqL2"}, lam \in ScaleValues, rho \in ScaleValues}
    \cup {SoftDTW_init(gm, gc, db) :
            gm \in ScaleValues, gc \in GroundCostValues, db \in BOOLEAN}

ObjInit ==
    /\ cost \in AllCosts
    /\ op = "new" /\ args = <<>> /\ out = None
    /\ buresIdle /\ dtwIdle /\ ubIdle /\ concIdle

\* type(cost).tree_unflatten(aux_data, children) on cost.tree_flatten()
TreeRoundTripOp ==
    /\ op = "new"
    /\ LET flat == tree_flatten(cost)
       IN  /\ args' = flat
           /\ out' = tree_unflatten(cost.cls, flat[2], flat[1])
    /\ op' = "tree_round_trip"
    /\ UNCHANGED <<cost, buresVars, dtwVars, ubVars, concVars>>

\* CostFn._padder: jnp.zeros((1, dim))
CostFn_padder(dim) == <<Tabulate(dim, LAMBDA j : R(0))>>

\* Cosine._padder: jnp.ones((1, dim))
Cosine_padder(dim) == <<Tabulate(dim, LAMBDA j : R(1))>>

\* Bures._padder: zero mean and identity covariance of the dimension d with
\* d = int((-1 + sqrt(1 + 4 * dim)) / 2), the largest d with d * (d + 1) <= dim
Bures_padder(dim) ==
    LET d == CHOOSE k \in 0..dim : k * (k + 1) <= dim /\ (k + 1) * (k + 2) > dim
    IN  <<Tabulate(d, LAMBDA j : R(0))
            \o Tabulate(d * d, LAMBDA e : IF (e - 1) \div d = (e - 1) % d THEN R(1) ELSE R(0))>>

\* cls._padder(dim), by the class's method resolution
padder(cls, dim) ==
    CASE cls = "Cosine" -> Cosine_padder(dim)
      [] cls = "Bures"  -> Bures_padder(dim)
      [] OTHER          -> CostFn_padder(dim)

MaxDim == 3

\* cost._padder(dim)
PadderOp ==
    /\ op = "new"
    /\ \E dim \in 1..MaxDim :
          /\ args' = <<dim>>
          /\ out' = padder(cost.cls, dim)
    /\ op' = "padder"
    /\ UNCHANGED <<cost, buresVars, dtwVars, ubVars, concVars>>

ObjNext == TreeRoundTripOp \/ PadderOp \/ BarycenterOp \/ TwistOp

SpecObjects == ObjInit /\ [][ObjNext]_vars

\* C15: for every cost and every choice of its hyperparameters,
\* tree_unflatten of tree_flatten's output is a cost of the same type with
\* the same hyperparameter values.
C15_TreeRoundTrip ==
    op = "tree_round_trip" => out = cost

\* The costs whose formula divides by the norms of its arguments.
DividesByNorm(c) == c.cls \in {"Cosine", "Arccos"}

\* C16: for every dim >= 1 the padding point is the zero vector by default,
\* and for a cost that divides by the norm of its arguments it is a unit
\* vector (Euclidean norm 1), never the zero vector.
C16_PaddingPoint ==
    op = "padder" =>
        LET dim == args[1]
            zero == Tabulate(dim, LAMBDA j : R(0))
        IN  /\ Len(out) = 1
            /\ (~DividesByNorm(cost) /\ cost.cls # "Bures") => out[1] = zero
            /\ DividesByNorm(cost) =>
                  /\ Len(out[1]) = dim
                  /\ out[1] # zero
                  /\ SumSq(out[1]) = R(1)

\* The classes that do not define the capability.
NoBarycenter == {"Euclidean", "Cosine", "Arccos", "SoftDTW", "UnbalancedBures", "Dotp"}
NoTwistOperator == {"Euclidean", "Cosine", "Arccos", "SoftDTW", "UnbalancedBures"}

\* C17: barycenter or twist_operator on a cost that does not define it
\* raises NotImplementedError with a message that names the capability, and
\* returns no value.
C17_MissingCapabilityRaises ==
    /\ (op = "barycenter" /\ cost.cls \in NoBarycenter) =>
          out = <<"raise", "NotImplementedError", "Barycenter is not implemented.">>
    /\ (op = "twist_operator" /\ cost.cls \in NoTwistOperator) =>
          out = <<"raise", "NotImplementedError", "Twist operator is not implemented.">>

C17_Witness ==
    /\ op = "barycenter" /\ cost.cls = "Dotp"
    /\ Len(args[2]) = 2 /\ args[1] = <<R(3), <<1, 4>>>>
    /\ Raised(out) /\ out[3] = "Barycenter is not implemented."

---------------------------------------------------------------------------
(* Two Bures.barycenter calls on one cost object, interleaved at any step. *)
(* The variables of the Bures model are the frame of the running call; the *)
(* other call's frame is suspended, and a switch exchanges the two.        *)

\* The frame of the running call: its arguments and its local variables.
Frame ==
    [pc |-> pc, weights |-> weights, xs |-> xs, tolerance |-> tolerance,
     min_iterations |-> min_iterations, max_iterations |-> max_iterations,
     inner_iterations |-> inner_iterations, w |-> w, covs |-> covs,
     mu_bary |-> mu_bary, iteration |-> iteration, cov |-> cov, diffs |-> diffs,
     inner_left |-> inner_left, scan_left |-> scan_left, steps |-> steps,
     result |-> result]

\* Variant in which the loop state is held by the cost object: a call that
\* resumes finds the state the other call left there.
ObjectState(saved, current) == current

\* init_state builds cov and diffs inside the call: they are locals of the
\* call, and a call that resumes finds its own.
OwnState(saved, current) == saved

\* A call as it is made: keyword arguments (min, max, inner) and inputs.
LoopKwargs == {<<1, 2, 1>>, <<2, 2, 1>>, <<2, 3, 2>>, <<1, MaxIter, 2>>}
CallFrames ==
    {[pc |-> "call", weights |-> ws, xs |-> gs, tolerance |-> <<1, 10000>>,
      min_iterations |-> kw[1], max_iterations |-> kw[2],
      inner_iterations |-> kw[3], w |-> <<>>, covs |-> <<>>, mu_bary |-> None,
      iteration |-> 0, cov |-> None, diffs |-> <<>>, inner_left |-> 0,
      scan_left |-> 0, steps |-> 0, result |-> None] :
        ws \in {<<1, 1>>, <<1, 3>>},
        gs \in {<<[mean |-> <<0, 0>>, cov |-> <<1, 1>>], [mean |-> <<1, 2>>, cov |-> <<4, 9>>]>>,
                <<[mean |-> <<1, 2>>, cov |-> <<4, 9>>], [mean |-> <<1, 2>>, cov |-> <<4, 9>>]>>},
        kw \in LoopKwargs}

ConcInit ==
    /\ self_obj = Bures_init(dimension, None)
    /\ active = 1
    /\ suspended \in CallFrames
    /\ \E f \in CallFrames :
          /\ pc = f.pc
          /\ weights = f.weights
          /\ xs = f.xs
          /\ tolerance = f.tolerance
          /\ min_iterations = f.min_iterations
          /\ max_iterations = f.max_iterations
          /\ inner_iterations = f.inner_iterations
          /\ w = f.w
          /\ covs = f.covs
          /\ mu_bary = f.mu_bary
          /\ iteration = f.iteration
          /\ cov = f.cov
          /\ diffs = f.diffs
          /\ inner_left = f.inner_left
          /\ scan_left = f.scan_left
          /\ steps = f.steps
          /\ result = f.result
    /\ dtwIdle /\ costIdle /\ ubIdle

\* The scheduler suspends the running call and resumes the other one.
Switch ==
    /\ active \in {1, 2}
    /\ suspended' = Frame
    /\ active' = 3 - active
    /\ pc' = suspended.pc
    /\ weights' = suspended.weights
    /\ xs' = suspended.xs
    /\ tolerance' = suspended.tolerance
    /\ min_iterations' = suspended.min_iterations
    /\ max_iterations' = suspended.max_iterations
    /\ inner_iterations' = suspended.inner_iterations
    /\ w' = suspended.w
    /\ covs' = suspended.covs
    /\ mu_bary' = suspended.mu_bary
    /\ iteration' = suspended.iteration
    /\ cov' = OwnState(suspended.cov, cov)
    /\ diffs' = OwnState(suspended.diffs, diffs)
    /\ inner_left' = suspended.inner_left
    /\ scan_left' = suspended.scan_left
    /\ steps' = suspended.steps
    /\ result' = suspended.result
    /\ UNCHANGED <<self_obj, dtwVars, costVars, ubVars>>

SpecConc == ConcInit /\ [][BuresNext \/ Switch]_vars

\* A call run alone, as a function of its arguments: the loop state after n
\* more steps, the while loop from a block boundary on, and the whole call.
RECURSIVE StepsAlone(_, _, _, _, _)
StepsAlone(it, c, d, n, f) ==
    IF n = 0 THEN <<it, c, d>>
    ELSE LET nc == next_cov_from(c, f.covs, f.w)
         IN  StepsAlone(it + 1, nc,
                        DiffsSet(d, it \div f.inner_iterations, FrobeniusDiff(nc, c)),
                        n - 1, f)

RECURSIVE WhileAlone(_, _, _, _)
WhileAlone(it, c, d, f) ==
    IF /\ it < f.max_iterations
       /\ (it < f.min_iterations
           \/ RGt(DiffsAt(d, it \div f.inner_iterations), f.tolerance))
    THEN LET s == StepsAlone(it, c, d, f.inner_iterations, f)
         IN  WhileAlone(s[1], s[2], s[3], f)
    ELSE <<it, c, d>>

RunAlone(f) ==
    LET d0 == init_state_diffs(f.max_iterations, f.inner_iterations)
        s == IF f.min_iterations = f.max_iterations
             THEN StepsAlone(0, init_state_cov, d0,
                             (f.max_iterations \div f.inner_iterations)
                                 * f.inner_iterations, f)
             ELSE WhileAlone(0, init_state_cov, d0, f)
    IN  <<mean_and_cov_to_x(f.mu_bary, s[2]), s[3]>>

Returned(f) == f.pc = "done"

\* C18: two interleaved calls on the same cost object each return the
\* (barycenter, diffs) they return when run alone, and the cost object
\* keeps its hyperparameters and never holds the diffs array.
C18_InterleavedCallsAsAlone ==
    active \in {1, 2} =>
        /\ Returned(Frame) => <<result, diffs>> = RunAlone(Frame)
        /\ Returned(suspended) =>
              <<suspended.result, suspended.diffs>> = RunAlone(suspended)
        /\ self_obj = Bures_init(dimension, None)
        /\ DOMAIN self_obj = {"cls", "dimension", "sqrtm_kw"}

C18_Witness ==
    /\ active = 2 /\ Returned(Frame) /\ Returned(suspended)
    /\ weights # suspended.weights /\ xs # suspended.xs
    /\ steps # suspended.steps
    /\ diffs # suspended.diffs
    /\ result # suspended.result

---------------------------------------------------------------------------
(* The norms inside the costs and the gradient of cost(x, x) with respect   *)
(* to its first argument.  A float is a rational or NaN; points are integer *)
(* vectors whose Euclidean norm is an integer.                              *)

FMul(a, b) == IF a = NaN \/ b = NaN THEN NaN ELSE RMul(a, b)
FNeg(a) == IF a = NaN THEN NaN ELSE RNeg(a)
IsFinite(a) == a # NaN /\ a # Inf
IsZero(z) == \A i \in 1..Len(z) : z[i] = R(0)

\* jnp.linalg.norm(z, axis=-1): sqrt(sum(|z| ** 2))
linalg_norm(z) == R(ISqrt(SumSq(z)[1]))

\* jax.grad of jnp.linalg.norm: z / norm(z); at the zero vector the chain
\* rule multiplies the derivative of sqrt at 0 (inf) by 2 z = 0, giving NaN.
linalg_norm_grad(z) ==
    Tabulate(Len(z), LAMBDA i :
        IF IsZero(z) THEN NaN ELSE RDiv(z[i], linalg_norm(z)))

\* mu.norm(z, ord): the p-norm, for the zero vector and for ord 1 and 2
mu_norm(z, ord) ==
    CASE IsZero(z) -> R(0)
      [] ord = 1   -> RSum(Tabulate(Len(z), LAMBDA i : RAbs(z[i])))
      [] ord = 2   -> linalg_norm(z)

\* The custom jvp of mu.norm: the gradient of the p-norm away from zero and
\* zero at the zero vector.
mu_norm_grad(z, ord) ==
    Tabulate(Len(z), LAMBDA i :
        CASE IsZero(z) -> R(0)
          [] ord = 1   -> IF RLt(z[i], R(0)) THEN R(-1)
                          ELSE IF RGt(z[i], R(0)) THEN R(1) ELSE R(0)
          [] ord = 2   -> RDiv(z[i], mu_norm(z, 2)))

\* The norm routine each class's code calls.
NormRoutine(cls) ==
    IF cls \in {"Cosine", "Arccos"} THEN "jnp.linalg.norm" ELSE "mu.norm"

FScale(a, v) == Tabulate(Len(v), LAMBDA i : FMul(a, v[i]))

\* Euclidean.__call__ and its gradient in x
Euclidean_call(x, y) == mu_norm(VSub(x, y), 2)
Euclidean_grad(x, y) == mu_norm_grad(VSub(x, y), 2)

\* h of SqPNorm, PNormP and EuclideanP through mu.norm, and jax.grad(h)
h_norm(c, z) ==
    CASE c.cls = "SqPNorm"    -> RMul(<<1, 2>>, RPow(mu_norm(z, c.p), 2))
      [] c.cls = "PNormP"     -> RDiv(RPow(mu_norm(z, c.p), c.p), R(c.p))
      [] c.cls = "EuclideanP" -> RPow(mu_norm(z, 2), c.p)
h_norm_grad(c, z) ==
    CASE c.cls = "SqPNorm"    -> FScale(mu_norm(z, c.p), mu_norm_grad(z, c.p))
      [] c.cls = "PNormP"     ->
            FScale(RPow(mu_norm(z, c.p), c.p - 1), mu_norm_grad(z, c.p))
      [] c.cls = "EuclideanP" ->
            FScale(RMul(R(c.p), RPow(mu_norm(z, 2), c.p - 1)), mu_norm_grad(z, 2))

\* Variant of cosine_similarity with the ridge added to the numerator too.
cosine_similarity_ridged(c, x, y) ==
    RDiv(RAdd(vdot(x, y), c.ridge),
         RAdd(RMul(linalg_norm(x), linalg_norm(y)), c.ridge))

\* cosine_similarity = vdot(x, y) / (x_norm * y_norm + ridge), the same
\* three lines in Cosine.__call__ and Arccos.__call__, and its gradient in x
cosine_similarity(c, x, y) ==
    RDiv(vdot(x, y), RAdd(RMul(linalg_norm(x), linalg_norm(y)), c.ridge))
cosine_similarity_grad(c, x, y) ==
    LET den == RAdd(RMul(linalg_norm(x), linalg_norm(y)), c.ridge)
        coef == RDiv(RMul(vdot(x, y), linalg_norm(y)), RMul(den, den))
        dnorm == linalg_norm_grad(x)
    IN  Tabulate(Len(x), LAMBDA i :
            FAdd(RDiv(y[i], den), FNeg(FMul(coef, dnorm[i]))))

\* Cosine.__call__ and its gradient in x
Cosine_call(c, x, y) == RSub(R(1), cosine_similarity(c, x, y))
Cosine_grad(c, x, y) ==
    LET g == cosine_similarity_grad(c, x, y)
    IN  Tabulate(Len(x), LAMBDA i : FNeg(g[i]))

\* cost(x, y) and jax.grad(cost)(x, y) of the classes that take a norm.
\* Arccos goes on from cosine_similarity through arccos, sin, cos and log,
\* which keep a NaN; its record is that of the cosine_similarity stage.
NormCall(c, x, y) ==
    CASE c.cls = "Euclidean"    -> Euclidean_call(x, y)
      [] c.cls \in PNormClasses -> h_norm(c, VSub(x, y))
      [] c.cls = "Cosine"       -> Cosine_call(c, x, y)
      [] c.cls = "Arccos"       -> cosine_similarity(c, x, y)
NormGrad(c, x, y) ==
    CASE c.cls = "Euclidean"    -> Euclidean_grad(x, y)
      [] c.cls \in PNormClasses -> h_norm_grad(c, VSub(x, y))
      [] c.cls = "Cosine"       -> Cosine_grad(c, x, y)
      [] c.cls = "Arccos"       -> cosine_similarity_grad(c, x, y)

NormVectors ==
    {VInt(v) : v \in {<<0, 0>>, <<1, 0>>, <<0, -1>>, <<3, 4>>, <<-4, 3>>, <<0, 2>>}}

\* Ridge values small enough for 32-bit rational arithmetic.
NormRidges == {<<1, 2>>, <<1, 4>>}
NormCosts ==
    {Plain_init("Euclidean")}
    \cup {PNorm_init(cls, q) : cls \in PNormClasses, q \in 1..MaxOrder}
    \cup {Cosine_init(r) : r \in NormRidges}
    \cup {Arccos_init(n, r) : n \in 0..MaxOrder, r \in NormRidges}

NormInit ==
    /\ cost \in NormCosts
    /\ op = "new" /\ args = <<>> /\ out = None
    /\ buresIdle /\ dtwIdle /\ ubIdle /\ concIdle

\* cost(x, x) and jax.grad(cost)(x, x)
SelfGradOp ==
    /\ op = "new"
    /\ \E x \in NormVectors :
          /\ args' = <<x, x>>
          /\ out' = [value |-> NormCall(cost, x, x), grad |-> NormGrad(cost, x, x)]
    /\ op' = "self_grad"
    /\ UNCHANGED <<cost, buresVars, dtwVars, ubVars, concVars>>

SpecNorm == NormInit /\ [][SelfGradOp]_vars

\* C19: every cost that takes a vector norm takes it with the zero-safe
\* routine mu.norm, and cost(x, x) and its gradient in x are finite, also
\* where the vector whose norm is taken is the zero vector.
C19_ZeroSafeNormEverywhere ==
    op = "self_grad" =>
        /\ NormRoutine(cost.cls) = "mu.norm"
        /\ IsFinite(out.value)
        /\ \A i \in 1..Len(out.grad) : IsFinite(out.grad[i])

---------------------------------------------------------------------------
(* SqEuclidean on integer vectors of equal length.                         *)

MaxEval == 4
EvalVectors ==
    {VInt(v) : v \in [1..1 -> (-1)..MaxEval] \cup [1..2 -> (-1)..MaxEval]
                       \cup [1..3 -> Coords]}

EvalInit ==
    /\ cost = [cls |-> "SqEuclidean", p |-> 0]
    /\ op = "new" /\ args = <<>> /\ out = None
    /\ buresIdle /\ dtwIdle /\ ubIdle /\ concIdle

\* SqEuclidean()(x, y)
EvalOp ==
    /\ op = "new"
    /\ \E x \in EvalVectors, y \in EvalVectors :
          /\ Len(x) = Len(y)
          /\ args' = <<x, y>>
          /\ out' = Call(cost, x, y)
    /\ op' = "evaluate"
    /\ UNCHANGED <<cost, buresVars, dtwVars, ubVars, concVars>>

SpecEval == EvalInit /\ [][EvalOp]_vars

---------------------------------------------------------------------------
(* Cosine on vectors with an integer Euclidean norm: the vectors along an  *)
(* axis of the plane and four vectors of norm 0 and 3 in space.            *)

MaxAxis == 2
CosineVectors ==
    {VInt(<<a, 0>>) : a \in (-MaxAxis)..MaxAxis}
    \cup {VInt(<<0, b>>) : b \in (-MaxAxis)..MaxAxis}
    \cup {VInt(v) : v \in {<<0, 0, 0>>, <<1, 2, 2>>, <<2, 1, -2>>, <<2, -2, 1>>}}

CosineInit ==
    /\ cost \in {Cosine_init(r) : r \in NormRidges \cup {DefaultRidge}}
    /\ op = "new" /\ args = <<>> /\ out = None
    /\ buresIdle /\ dtwIdle /\ ubIdle /\ concIdle

\* Cosine(ridge)(x, y)
CosineOp ==
    /\ op = "new"
    /\ \E x \in CosineVectors, y \in CosineVectors :
          /\ Len(x) = Len(y)
          /\ args' = <<x, y>>
          /\ out' = Cosine_call(cost, x, y)
    /\ op' = "cosine"
    /\ UNCHANGED <<cost, buresVars, dtwVars, ubVars, concVars>>

SpecCosine == CosineInit /\ [][CosineOp]_vars

\* C21: Cosine(ridge)(x, y) is exactly 1 whenever the dot product of x and
\* y is 0, for every ridge > 0; it is 1 for x = [1, 0], y = [0, 1] with
\* ridge = 1e-8.
C21_OrthogonalCosineIsOne ==
    op = "cosine" =>
        /\ vdot(args[1], args[2]) = R(0) => out = R(1)
        /\ (/\ cost.ridge = DefaultRidge
            /\ args = <<VInt(<<1, 0>>), VInt(<<0, 1>>)>>) => out = R(1)

C21_Witness ==
    /\ op = "cosine" /\ cost = Cosine_init(DefaultRidge)
    /\ args = <<VInt(<<1, 0>>), VInt(<<0, 1>>)>>
    /\ vdot(args[1], args[2]) = R(0)
    /\ out = R(1)

---------------------------------------------------------------------------
(* h_transform, in dimension one.  A traced number is a pair               *)
(* <<value, derivative in x>>, as forward-mode differentiation carries it. *)

DVal(a) == a[1]
DTan(a) == a[2]
DConst(v) == <<v, R(0)>>
DAdd(a, b) == <<RAdd(a[1], b[1]), RAdd(a[2], b[2])>>
DSub(a, b) == <<RSub(a[1], b[1]), RSub(a[2], b[2])>>
DMul(a, b) == <<RMul(a[1], b[1]), RAdd(RMul(a[1], b[2]), RMul(a[2], b[1]))>>
DScale(k, a) == <<RMul(k, a[1]), RMul(k, a[2])>>

RECURSIVE DPow(_, _)
DPow(a, k) == IF k = 0 THEN DConst(R(1)) ELSE DMul(a, DPow(a, k - 1))

\* |z| with derivative sign(z), and 0 at 0: jnp.abs, and mu.norm of a
\* one-coordinate vector for every order
DAbsv(a) ==
    <<RAbs(a[1]),
      IF RLt(a[1], R(0)) THEN RNeg(a[2])
      ELSE IF RGt(a[1], R(0)) THEN a[2] ELSE R(0)>>

\* Variant of jax.lax.stop_gradient that keeps the derivative.
keep_gradient(a) == a

\* jax.lax.stop_gradient
stop_gradient(a) == <<a[1], R(0)>>

\* self.h(z) on a traced z
h_traced(c, z) ==
    CASE c.cls = "SqEuclidean" -> DMul(z, z)
      [] c.cls = "PNormP"      -> DScale(<<1, c.p>>, DPow(DAbsv(z), c.p))
      [] c.cls = "SqPNorm"     -> DScale(<<1, 2>>, DPow(DAbsv(z), 2))
      [] c.cls = "EuclideanP"  -> DPow(DAbsv(z), c.p)
      [] c.cls = "RegTICost"   ->
            DAdd(DScale(RMul(c.rho, <<1, 2>>), DMul(z, z)), DScale(c.lam, DAbsv(z)))

\* The concave function f(y) = b y - a y^2 with a >= 0, as the pair <<a, b>>
ConcaveFns == {<<R(a), R(b)>> : a \in 0..1, b \in (-1)..1}
f_traced(f, y) == DSub(DScale(f[2], y), DScale(f[1], DMul(y, y)))

\* fun(z) = self.h(z) - f(x - z), of f_h in TICost.h_transform; the last
\* line of f_h in RegTICost.h_transform is the same expression
fun(c, f, x, z) == DSub(h_traced(c, z), f_traced(f, DSub(x, z)))

MaxGrid == 1
Grid == {R(g) : g \in (-MaxGrid)..MaxGrid}

\* What the solver is asked to minimise, tabulated over the grid.  TICost
\* hands fun to solver(fun, x_init); RegTICost hands the smooth part
\* -f(x - z) and the prox of self._h to jaxopt.ProximalGradient, whose
\* objective is their sum.
Objective(c, f, x) ==
    IF c.cls = "RegTICost"
    THEN [g \in Grid |->
            RAdd(DVal(DScale(R(-1), f_traced(f, DSub(DConst(x), DConst(g))))),
                 Regularization_call(c, <<g>>))]
    ELSE [g \in Grid |-> DVal(fun(c, f, DConst(x), DConst(g)))]

\* f_h(x, x_init) with the solver's answer z_sol, a traced number whose
\* derivative is the way the solver's result varies with x.  The optional
\* x_init is <<>> when it is not given and <<v>> when it is v.
f_h(c, f, x, x_init, z_sol) ==
    LET xt == <<x, R(1)>>
        start == IF x_init = <<>> THEN x ELSE x_init[1]
        z == stop_gradient(z_sol)
        res == fun(c, f, xt, z)
    IN  [value |-> DVal(res), grad |-> DTan(res),
         solver_calls |-> <<[objective |-> Objective(c, f, x), x_init |-> start]>>]

TransformCosts ==
    {c \in CostFns : IsTI(c)}
    \cup {RegTICost_init("L1", lam, rho) : lam \in ScaleValues, rho \in ScaleValues}

TransformInit ==
    /\ cost \in TransformCosts
    /\ op = "new" /\ args = <<>> /\ out = None
    /\ buresIdle /\ dtwIdle /\ ubIdle /\ concIdle

\* cost.h_transform(f)(x, x_init); the solver returns any point, which
\* varies with x in any way
HTransformOp ==
    /\ op = "new"
    /\ \E f \in ConcaveFns, x \in Grid, x_init \in {<<>>} \cup {<<g>> : g \in Grid},
          z \in Grid, dz \in Grid :
          /\ args' = [f |-> f, x |-> x, x_init |-> x_init, z |-> <<z, dz>>]
          /\ out' = f_h(cost, f, x, x_init, <<z, dz>>)
    /\ op' = "h_transform"
    /\ UNCHANGED <<cost, buresVars, dtwVars, ubVars, concVars>>

SpecTransform == TransformInit /\ [][HTransformOp]_vars

\* C22: f_h(x) of TICost.h_transform and of RegTICost.h_transform runs the
\* inner minimiser once, on z -> h(z) - f(x - z), from x_init (from x when
\* x_init is not given), and returns h(z) - f(x - z) at the returned z; z is
\* detached, so the derivative of f_h in x is the partial derivative of
\* h(z) - f(x - z) in x at fixed z, -f'(x - z), whatever the way z varies
\* with x.
C22_HTransformDetachesMinimizer ==
    op = "h_transform" =>
        LET f == args.f
            x == args.x
            z == args.z[1]
            y == RSub(x, z)
        IN  /\ Len(out.solver_calls) = 1
            /\ out.solver_calls[1].objective =
                  [g \in Grid |->
                      RSub(h(cost, <<g>>),
                           RSub(RMul(f[2], RSub(x, g)),
                                RMul(f[1], RMul(RSub(x, g), RSub(x, g)))))]
            /\ out.solver_calls[1].x_init =
                  (IF args.x_init = <<>> THEN x ELSE args.x_init[1])
            /\ out.value =
                  RSub(h(cost, <<z>>), RSub(RMul(f[2], y), RMul(f[1], RMul(y, y))))
            /\ out.grad = RNeg(RSub(f[2], RMul(R(2), RMul(f[1], y))))

C22_Witness ==
    /\ op = "h_transform" /\ cost.cls = "RegTICost"
    /\ args.x_init = <<>> /\ args.x = R(1)
    /\ args.z = <<R(-1), R(1)>>
    /\ args.f = <<R(1), R(1)>>
    /\ out.grad = R(3)
    /\ out.solver_calls[1].x_init = R(1)

---------------------------------------------------------------------------
(* The indices used on the diagnostics array, checked under Spec.          *)

\* The index cond_fn reads when the continuation test is taken: the test is
\* a logical_and / logical_or of traced values, so cond_fn is evaluated at
\* every boundary, whatever iteration is.
CondIndexInRange ==
    pc = "cond" =>
        iteration \div inner_iterations
            \in 0..(CeilDiv(max_iterations, inner_iterations) - 1)

\* The index body_fn writes at a step.
BodyIndexInRange ==
    pc = "body" =>
        body_fn_index(iteration)
            \in 0..(CeilDiv(max_iterations, inner_iterations) - 1)

\* C23: every index used on the diagnostics array, read by the stopping
\* predicate or written by the step function, lies in
\* 0 .. ceil(max_iterations / inner_iterations) - 1, at every step and at
\* every evaluation of the stopping predicate, the one at
\* iteration = max_iterations included.
C23_DiagnosticIndicesInRange == CondIndexInRange /\ BodyIndexInRange

\* The number of blocks the loop has completed.
BlocksRun == steps \div inner_iterations

\* C24: when covariance_fixpoint_iter returns, diffs holds a value >= 0 at
\* every index of a block that was executed and its initial -1 at every
\* index of a block that was not, so the number of non-negative entries is
\* the number of blocks run.
C24_DiagnosticsMarkExecutedBlocks ==
    pc \in {"return", "done"} =>
        /\ \A b \in 1..Len(diffs) :
              /\ b <= BlocksRun => ~RLt(diffs[b], R(0))
              /\ b > BlocksRun => diffs[b] = R(-1)
        /\ Cardinality({b \in 1..Len(diffs) : ~RLt(diffs[b], R(0))}) = BlocksRun

C24_Witness ==
    /\ pc = "done" /\ steps = 2 /\ inner_iterations = 1
    /\ Len(diffs) = 3
    /\ RGt(diffs[1], R(0)) /\ ~RLt(diffs[2], R(0)) /\ diffs[3] = R(-1)

=============================================================================
